---- MODULE Spec2Model ----
(***************************************************************************)
(* The orchestration backend of stats-utility-app: the job store, the      *)
(* POST /upload handler with its fire-and-forget worker processJob, the    *)
(* GET /jobs and GET /results/:jobId handlers and the /analyze/* and       *)
(* /plot/* proxy routes.  Two builds of the server are in the repository:  *)
(* the in-memory server (src/unnamed/part_010) and the Mongo/NO_DB server  *)
(* (src/apps/backend/src/server.ts); `build` says which one runs.          *)
(*                                                                         *)
(* Spec is the whole backend.  The proxy routes and the job machine share  *)
(* no state but the response channel, so each is also given as a           *)
(* specification of its own (JobSpec, ProxySpec: Spec restricted to the    *)
(* actions of one of them), and ListSpec runs GET /jobs against stores of  *)
(* more than JobsLimit jobs.  PairSpec starts the job machine with one job *)
(* already in flight, so that two jobs run side by side, and               *)
(* SettlingJobSpec is the job machine in which every awaited operation     *)
(* settles while the database may reject the worker's writes.              *)
(*                                                                         *)
(* Timestamps (nowISO) are modelled by the integer reading of the clock:   *)
(* ISO-8601 strings of equal length order as their instants do.            *)
(*                                                                         *)
(* The statistics engine stats_rs, which the backend calls, is given by    *)
(* its operations (DistSpec, EcdfSpec, EngineSpec), and the frontend by    *)
(* the Calculate flow of App and AnalyzePanel (UiSpec).                    *)
(***************************************************************************)
EXTENDS Integers, Sequences, FiniteSets, TLC

(* ------------------------------ bounds -------------------------------- *)

\* Upload requests that carry a file (each stores one file, at most one job).
MaxUploads == 1
\* Proxy requests (/analyze/*, /plot/*) waiting for their downstream call.
MaxProxy == 1
\* Last reading of the millisecond clock.
MaxClock == 1
\* Largest job store GET /jobs is run against in ListSpec.
MaxStored == 52
\* Longest sample handed to the statistics engine.
MaxLen == 3
\* Sample values are the integers 0..MaxValue.
MaxValue == 3
\* Largest fixed bin count asked of distribution.
MaxBins == 3
\* Longest CSV text handed to csvToNumbers, in characters.
MaxCsv == 3

(* --------------------------- program constants ------------------------ *)

\* listJobs(50) / .limit(50)
JobsLimit == 50

Undefined == "undefined"

Builds == {"part_010", "server_ts"}

JobKind == {"stats", "plot"}

StatsSvc == "stats_rs"
PlotsSvc == "plots_py"

\* Own-property lookups on a plain object fall through to Object.prototype.
ObjectPrototypeKeys == {"constructor", "__proto__", "toString"}

(* ------------------------------ state --------------------------------- *)

VARIABLES
    build,          \* which server file runs
    NO_DB,          \* process.env.NO_DB === "1" (server.ts only)
    FAKE_SERVICES,  \* process.env.FAKE_SERVICES === "1"
    Mem,            \* the job store, JobDocs in insertion order
    worker,         \* worker[i]: where processJob of Mem[i] stands
    files,          \* file names stored under UPLOAD_DIR
    up,             \* the POST /upload handler in progress
    proxy,          \* proxy requests awaiting their downstream call
    resp,           \* the response sent by the step just taken (NoResp: none)
    clock,          \* the clock nowISO reads
    payload,        \* stats engine: the caller's input, owned by the caller
    ret,            \* stats engine: what the last call returned
    file,           \* AnalyzePanel: the chosen file
    busy,           \* App: a calculation is running
    err,            \* App: the error banner
    summary,        \* App: the summary on screen
    dist,           \* App: the distribution on screen
    runs,           \* handleCalculate invocations that have not returned
    disabled        \* the Calculate button's disabled attribute in the DOM

config == <<build, NO_DB, FAKE_SERVICES>>

backend == <<config, Mem, worker, files, up, proxy, resp, clock>>

engine == <<payload, ret>>

ui == <<file, busy, err, summary, dist, runs, disabled>>

vars == <<backend, engine, ui>>

(* ------------------------------ helpers ------------------------------- *)

nowISO == clock

newJobId(n) == "job-" \o ToString(n)

\* The store is a plain object (Record<string, JobDoc>) unless Mongo holds it.
PlainObjectStore == build = "part_010" \/ NO_DB

IndexOf(M, jobId) ==
    IF \E i \in 1..Len(M) : M[i].jobId = jobId
    THEN CHOOSE i \in 1..Len(M) : M[i].jobId = jobId
    ELSE 0

insertJob(M, doc) ==
    IF IndexOf(M, doc.jobId) = 0
    THEN Append(M, doc)
    ELSE [M EXCEPT ![IndexOf(M, doc.jobId)] = doc]

\* { ...j, ...patch }
Spread(j, patch) ==
    [f \in DOMAIN j |-> IF f \in DOMAIN patch THEN patch[f] ELSE j[f]]

\* Mutant: the patch is written to every record of the store.
updateJobEvery(M, jobId, patch) ==
    [i \in 1..Len(M) |-> [Spread(M[i], patch) EXCEPT !.updatedAt = nowISO]]

\* jobId is job.jobId of the job processJob was started for: ids made by
\* newJobId.
updateJob(M, jobId, patch) ==
    LET i == IndexOf(M, jobId)
    IN  IF i = 0
        THEN M
        ELSE [M EXCEPT ![i] = [Spread(M[i], patch) EXCEPT !.updatedAt = nowISO]]

NullJob == [jobId |-> Undefined, status |-> Undefined,
            result |-> Undefined, error |-> Undefined]

\* Mem[jobId] || null ; Jobs.findOne({ jobId })
getJob(M, jobId) ==
    LET i == IndexOf(M, jobId)
    IN  IF i # 0
        THEN [found |-> "own", job |-> M[i]]
        ELSE IF PlainObjectStore /\ jobId \in ObjectPrototypeKeys
             THEN [found |-> "inherited", job |-> NullJob]
             ELSE [found |-> "none", job |-> NullJob]

(* ------------------------- POST /upload ------------------------------- *)

EmptyObject == [type |-> "object", kind |-> Undefined, params |-> Undefined]

MetaTexts ==
    { "{\"kind\":\"stats\"}",
      "{\"kind\":\"plot\",\"params\":{\"bins\":5}}",
      "{\"kind\":\"stats\",\"params\":5}",
      "{\"kind\":\"median\"}",
      "{}",
      "{kind:stats" }

\* The multipart "metadata" field: absent, or a text.
MetaInputs ==
    {[present |-> FALSE, text |-> ""]} \cup
    {[present |-> TRUE, text |-> t] : t \in MetaTexts}

\* JSON.parse on the metadata texts above.
JSONParse(text) ==
    CASE text = "{\"kind\":\"stats\"}" ->
            [threw |-> FALSE,
             value |-> [type |-> "object", kind |-> "stats", params |-> Undefined]]
      [] text = "{\"kind\":\"plot\",\"params\":{\"bins\":5}}" ->
            [threw |-> FALSE,
             value |-> [type |-> "object", kind |-> "plot", params |-> "{bins:5}"]]
      [] text = "{\"kind\":\"stats\",\"params\":5}" ->
            [threw |-> FALSE,
             value |-> [type |-> "object", kind |-> "stats", params |-> "5"]]
      [] text = "{\"kind\":\"median\"}" ->
            [threw |-> FALSE,
             value |-> [type |-> "object", kind |-> "median", params |-> Undefined]]
      [] text = "{}" ->
            [threw |-> FALSE, value |-> EmptyObject]
      [] OTHER ->
            [threw |-> TRUE, value |-> EmptyObject]

\* z.record(z.string(), z.unknown())
IsRecord(p) == p \in {"{}", "{bins:5}"}

\* UploadJobInput.safeParse
safeParse(v) ==
    IF /\ v.type = "object"
       /\ v.kind \in JobKind
       /\ (v.params = Undefined \/ IsRecord(v.params))
    THEN [success |-> TRUE, kind |-> v.kind, params |-> v.params]
    ELSE [success |-> FALSE, kind |-> Undefined, params |-> Undefined]

\* (req.body?.metadata ?? "").toString()
metaStr(meta) == IF meta.present THEN meta.text ELSE ""

\* The handler up to the point where the job is created: the status it
\* answers with, or 202 with the validated kind and params.
UploadOutcome(meta, hasFile) ==
    LET s == metaStr(meta)
        j == IF s # "" THEN JSONParse(s) ELSE [threw |-> FALSE, value |-> EmptyObject]
        parsed == safeParse(j.value)
    IN  IF j.threw
        THEN [code |-> 500, error |-> "Unexpected token", kind |-> Undefined, params |-> Undefined]
        ELSE IF ~parsed.success
        THEN [code |-> 400, error |-> "flatten", kind |-> Undefined, params |-> Undefined]
        ELSE IF ~hasFile
        THEN [code |-> 400, error |-> "file is required", kind |-> Undefined, params |-> Undefined]
        ELSE [code |-> 202, error |-> Undefined, kind |-> parsed.kind,
              params |-> IF parsed.params = Undefined THEN "{}" ELSE parsed.params]

(* --------------------- downstream calls (fetch) ----------------------- *)

\* No downstream call made (yet).
NoCall == [net |-> FALSE, status |-> -1, ctype |-> "none", body |-> ""]

\* What a call to stats_rs or plots_py can come back with: a network error,
\* or a response with a status and a JSON or a binary/plain body.
DownOutcomes ==
    { [net |-> FALSE, status |-> 0, ctype |-> "none", body |-> ""],
      [net |-> TRUE, status |-> 200, ctype |-> "json", body |-> "{out}"],
      [net |-> TRUE, status |-> 200, ctype |-> "bytes", body |-> "PNG"],
      [net |-> TRUE, status |-> 500, ctype |-> "json", body |-> "{detail}"],
      [net |-> TRUE, status |-> 500, ctype |-> "bytes", body |-> "Internal Server Error"] }

\* Response.ok
ok(r) == r.net /\ r.status >= 200 /\ r.status <= 299

Threw(msg) == [threw |-> TRUE, value |-> msg]
Returned(v) == [threw |-> FALSE, value |-> v]

\* Mutant: the status check is left out.
fetchJSONUnchecked(url, r) ==
    IF ~r.net THEN Threw("fetch failed")
    ELSE IF r.ctype # "json" THEN Threw("Unexpected token")
    ELSE Returned(r.body)

fetchJSON(url, r) ==
    IF ~r.net THEN Threw("fetch failed")
    ELSE IF ~ok(r) THEN Threw(url \o " -> " \o ToString(r.status))
    ELSE IF r.ctype # "json" THEN Threw("Unexpected token")
    ELSE Returned(r.body)

fetchPNG(url, r) ==
    IF ~r.net THEN Threw("fetch failed")
    ELSE IF ~ok(r) THEN Threw(url \o " -> " \o ToString(r.status))
    ELSE Returned(r.body)

\* server.ts processJob: const r = await fetch(...); const data = await r.json()
fetchThenJson(url, r) ==
    IF ~r.net THEN Threw("fetch failed")
    ELSE IF r.ctype # "json" THEN Threw("Unexpected token")
    ELSE Returned(r.body)

(* ------------------------------ Init ---------------------------------- *)

NoMeta == [present |-> FALSE, text |-> ""]

IdleUp == [pc |-> "idle", jobId |-> Undefined, meta |-> NoMeta]

\* Requests and response bodies are records whatever the route.
NoReq == [none |-> TRUE]
NoBody == [none |-> TRUE]

NoResp == [route |-> "none", req |-> NoReq, code |-> 0,
           body |-> NoBody, down |-> NoCall]

\* No engine call has been made.
NoRet == [op |-> "none"]

EngineIdle ==
    /\ payload = [none |-> TRUE]
    /\ ret = NoRet

Null == "null"

\* The frontend as mounted: useState(null), useState(false).
Mounted ==
    /\ file = Null
    /\ busy = FALSE
    /\ err = Null
    /\ summary = Null
    /\ dist = Null
    /\ runs = <<>>
    /\ disabled = TRUE

Init ==
    /\ build \in Builds
    /\ NO_DB \in BOOLEAN
    /\ build = "part_010" => NO_DB
    /\ FAKE_SERVICES \in BOOLEAN
    /\ Mem = <<>>
    /\ worker = <<>>
    /\ files = {}
    /\ up = IdleUp
    /\ proxy = {}
    /\ resp = NoResp
    /\ clock = 0
    /\ EngineIdle
    /\ Mounted

\* No handler is in the middle of its synchronous run.
Idle == up.pc = "idle"

Tick ==
    /\ Idle
    /\ clock < MaxClock
    /\ clock' = clock + 1
    /\ resp' = NoResp
    /\ UNCHANGED <<engine, ui, config, Mem, worker, files, up, proxy>>

(* ----------------------- POST /upload, continued ---------------------- *)

\* multer.diskStorage filename: `${id}_${file.originalname}`
savedFilename(n) == "f-" \o ToString(n) \o "_data.csv"

NewJobDoc(jobId, kind, params, filePath) ==
    [jobId |-> jobId, kind |-> kind, status |-> "queued", filePath |-> filePath,
     params |-> params, createdAt |-> nowISO, updatedAt |-> nowISO,
     error |-> Undefined, result |-> Undefined]

\* savedFilename(0) is a file stored before the run began (InitPair); the
\* bound counts the uploads of the run.
\* upload.single("file") stores the file, then the handler validates the
\* metadata and either answers 400/500 or inserts the job.
Upload(meta, hasFile) ==
    LET stored == IF hasFile THEN {savedFilename(Cardinality(files) + 1)} ELSE {}
        out == UploadOutcome(meta, hasFile)
        jobId == newJobId(Len(Mem) + 1)
        filePath == "uploads/" \o savedFilename(Cardinality(files) + 1)
    IN  /\ Idle
        /\ hasFile => Cardinality(files \ {savedFilename(0)}) < MaxUploads
        /\ files' = files \cup stored
        /\ IF out.code = 202
           THEN /\ Mem' = insertJob(Mem, NewJobDoc(jobId, out.kind, out.params, filePath))
                /\ worker' = Append(worker, [pc |-> "new", down |-> NoCall])
                /\ up' = [pc |-> "inserted", jobId |-> jobId, meta |-> meta]
                /\ resp' = NoResp
           ELSE /\ resp' = [route |-> "/upload", req |-> [meta |-> meta, hasFile |-> hasFile],
                            code |-> out.code, body |-> [error |-> out.error],
                            down |-> NoCall]
                /\ UNCHANGED <<Mem, worker, up>>
        /\ UNCHANGED <<engine, ui, config, proxy, clock>>

\* The canned results of FAKE_SERVICES.
FakeResult(kind) ==
    IF build = "part_010"
    THEN (IF kind = "stats" THEN "{count:100,mean:12.3,...}"
                            ELSE "{imagePath:fake_plot.png,publicUrl}")
    ELSE (IF kind = "stats" THEN "{mean:28.3,variance:42.0}"
                            ELSE "{imagePath:fake_plot.png,meta}")

\* processJob(jobDoc) up to its first await, run inside the upload handler.
\* part_010: updateJob(running), and with FAKE_SERVICES the canned result
\* too (no await before it); otherwise fs.readFile is awaited.
\* server.ts: Jobs.updateOne(running) is called and awaited.  The in-memory
\* Jobs.updateOne (NO_DB) is an async function without an await: it patches
\* the record during the call.  Mongo's receives the command and patches
\* the record later, while processJob waits.
Running(M, jobId) == updateJob(M, jobId, [status |-> "running"])

\* Mutant: the job that finished is put back in the queue.
SucceededRequeued(M, jobId, result) ==
    updateJob(M, jobId, [status |-> "queued", result |-> result])

Succeeded(M, jobId, result) ==
    updateJob(M, jobId, [status |-> "succeeded", result |-> result])

\* Mutant: the failure is written into the result field as well.
FailedWithResult(M, jobId, msg) ==
    updateJob(M, jobId, [status |-> "failed", error |-> msg, result |-> msg])

Failed(M, jobId, msg) ==
    updateJob(M, jobId, [status |-> "failed", error |-> msg])

UploadSpawn ==
    LET i == IndexOf(Mem, up.jobId)
        job == Mem[i]
    IN  /\ up.pc = "inserted"
        /\ IF build = "part_010"
           THEN IF FAKE_SERVICES
                THEN /\ Mem' = Succeeded(Running(Mem, job.jobId), job.jobId, FakeResult(job.kind))
                     /\ worker' = [worker EXCEPT ![i].pc = "done"]
                ELSE /\ Mem' = Running(Mem, job.jobId)
                     /\ worker' = [worker EXCEPT ![i].pc = "readFile"]
           ELSE IF NO_DB
                THEN /\ Mem' = Running(Mem, job.jobId)
                     /\ worker' = [worker EXCEPT ![i].pc = "resume"]
                ELSE /\ Mem' = Mem
                     /\ worker' = [worker EXCEPT ![i].pc = "updateOne"]
        /\ up' = [up EXCEPT !.pc = "spawned"]
        /\ resp' = NoResp
        /\ UNCHANGED <<engine, ui, config, files, proxy, clock>>

\* Mutant: the id of the stored file is answered instead of the job's.
UploadResponseFileId(jobId) ==
    [jobId |-> "f-" \o ToString(Cardinality(files)), status |-> "queued"]

\* const resp: TUploadResponse = { jobId, status: "queued" }
UploadResponse(jobId) == [jobId |-> jobId, status |-> "queued"]

\* return res.status(202).json(resp)
UploadRespond ==
    /\ up.pc = "spawned"
    /\ resp' = [route |-> "/upload", req |-> [meta |-> up.meta, hasFile |-> TRUE], code |-> 202,
                body |-> UploadResponse(up.jobId), down |-> NoCall]
    /\ up' = IdleUp
    /\ UNCHANGED <<engine, ui, config, Mem, worker, files, proxy, clock>>

(* --------------------------- processJob ------------------------------- *)

StatsUrl == "stats_rs/api/v1/stats/summary"
RenderUrl == "plots_py/render-csv"

\* server.ts with Mongo: the database makes the write of running.
UpdateOneReturns(i) ==
    /\ Idle
    /\ worker[i].pc = "updateOne"
    /\ Mem' = Running(Mem, Mem[i].jobId)
    /\ worker' = [worker EXCEPT ![i].pc = "resume"]
    /\ resp' = NoResp
    /\ UNCHANGED <<engine, ui, config, files, up, proxy, clock>>

\* server.ts after `await Jobs.updateOne(running)`.
WorkerResume(i) ==
    LET job == Mem[i]
    IN  /\ Idle
        /\ worker[i].pc = "resume"
        /\ IF FAKE_SERVICES
           THEN /\ Mem' = Succeeded(Mem, job.jobId, FakeResult(job.kind))
                /\ worker' = [worker EXCEPT ![i].pc = "done"]
           ELSE /\ Mem' = Mem
                /\ worker' = [worker EXCEPT ![i].pc = "fetch"]
        /\ resp' = NoResp
        /\ UNCHANGED <<engine, ui, config, files, up, proxy, clock>>

\* part_010: fs.readFile(job.filePath) settles; on success the downstream
\* request is sent.
ReadFileReturns(i, readOk) ==
    LET job == Mem[i]
    IN  /\ Idle
        /\ worker[i].pc = "readFile"
        /\ IF readOk
           THEN /\ Mem' = Mem
                /\ worker' = [worker EXCEPT ![i].pc = "fetch"]
           ELSE /\ Mem' = Failed(Mem, job.jobId, "ENOENT")
                /\ worker' = [worker EXCEPT ![i].pc = "done"]
        /\ resp' = NoResp
        /\ UNCHANGED <<engine, ui, config, files, up, proxy, clock>>

PlotResult(jobId) == "{imagePath:plots/" \o jobId \o ".png,publicUrl}"

\* What processJob does with the settled downstream call r:
\* the next pc and the patched store.
AfterFetch(M, job, r) ==
    IF build = "part_010"
    THEN IF job.kind = "stats"
         THEN LET d == fetchJSON(StatsUrl, r)
              IN  IF d.threw
                  THEN [pc |-> "done", M |-> Failed(M, job.jobId, d.value)]
                  ELSE [pc |-> "done", M |-> Succeeded(M, job.jobId, d.value)]
         ELSE LET d == fetchPNG(RenderUrl, r)
              IN  IF d.threw
                  THEN [pc |-> "done", M |-> Failed(M, job.jobId, d.value)]
                  ELSE [pc |-> "writeFile", M |-> M]
    ELSE LET d == fetchThenJson(IF job.kind = "stats" THEN "stats_rs/compute"
                                                       ELSE "plots_py/plot", r)
         IN  IF d.threw
             THEN [pc |-> "done", M |-> Failed(M, job.jobId, d.value)]
             ELSE [pc |-> "done", M |-> Succeeded(M, job.jobId, d.value)]

\* The downstream call of job i settles with r.
FetchReturns(i, r) ==
    LET next == AfterFetch(Mem, Mem[i], r)
    IN  /\ Idle
        /\ worker[i].pc = "fetch"
        /\ Mem' = next.M
        /\ worker' = [worker EXCEPT ![i] = [pc |-> next.pc, down |-> r]]
        /\ resp' = NoResp
        /\ UNCHANGED <<engine, ui, config, files, up, proxy, clock>>

\* server.ts with Mongo: the downstream call of job i settles with r while
\* the database cannot be reached, so `await Jobs.updateOne(...)` rejects,
\* whether it was to write succeeded (inside the try) or, r.json() having
\* thrown, failed (inside the catch).  A rejection inside the try is caught
\* and the catch block calls Jobs.updateOne({status: "failed"}): if the
\* database is `back` that write is made, otherwise it rejects too and so
\* does processJob, which the upload handler's .catch only logs.
UpdateOneRejects(i, r, back) ==
    LET job == Mem[i]
        d == fetchThenJson(IF job.kind = "stats" THEN "stats_rs/compute"
                                                 ELSE "plots_py/plot", r)
    IN  /\ Idle
        /\ build = "server_ts" /\ ~NO_DB
        /\ worker[i].pc = "fetch"
        /\ IF back /\ ~d.threw
           THEN /\ Mem' = Failed(Mem, job.jobId, "MongoNetworkError")
                /\ worker' = [worker EXCEPT ![i] = [pc |-> "done", down |-> r]]
           ELSE /\ Mem' = Mem
                /\ worker' = [worker EXCEPT ![i] = [pc |-> "rejected", down |-> r]]
        /\ resp' = NoResp
        /\ UNCHANGED <<engine, ui, config, files, up, proxy, clock>>

\* part_010, kind plot: fs.writeFile(absPath, png) settles.
WriteFileReturns(i, writeOk) ==
    LET job == Mem[i]
    IN  /\ Idle
        /\ worker[i].pc = "writeFile"
        /\ Mem' = IF writeOk
                  THEN Succeeded(Mem, job.jobId, PlotResult(job.jobId))
                  ELSE Failed(Mem, job.jobId, "EACCES")
        /\ worker' = [worker EXCEPT ![i].pc = "done"]
        /\ resp' = NoResp
        /\ UNCHANGED <<engine, ui, config, files, up, proxy, clock>>

(* ------------------------------ GET /jobs ----------------------------- *)

\* Array.prototype.sort with (a, b) => (a.createdAt > b.createdAt ? -1 : 1):
\* later createdAt first, and docs of equal createdAt in the order of
\* Object.values(Mem), which is insertion order.  Rank is the place docs[i]
\* gets.
Rank(docs, i) ==
    1 + Cardinality({j \in 1..Len(docs) :
                        \/ docs[j].createdAt > docs[i].createdAt
                        \/ docs[j].createdAt = docs[i].createdAt /\ j < i})

SortNewest(docs) ==
    [k \in 1..Len(docs) |-> docs[CHOOSE i \in 1..Len(docs) : Rank(docs, i) = k]]

\* .slice(0, limit) ; cursor.limit(n)
Slice(docs, limit) == SubSeq(docs, 1, IF Len(docs) < limit THEN Len(docs) ELSE limit)

\* part_010: listJobs(limit).
listJobs(M, limit) == Slice(SortNewest(M), limit)

\* server.ts: Jobs.find().sort({ createdAt: -1 }).limit(50).toArray().
\* The NO_DB stand-in sorts in toArray() and ignores the argument of limit().
findSortLimit(M, limit) ==
    IF NO_DB THEN SortNewest(M) ELSE Slice(SortNewest(M), limit)

JobItem(d) ==
    [jobId |-> d.jobId, kind |-> d.kind, status |-> d.status,
     createdAt |-> d.createdAt, updatedAt |-> d.updatedAt,
     error |-> d.error, result |-> d.result]

JobsResponse(M) ==
    LET docs == IF build = "part_010" THEN listJobs(M, JobsLimit)
                                      ELSE findSortLimit(M, JobsLimit)
    IN  [k \in 1..Len(docs) |-> JobItem(docs[k])]

GetJobs ==
    /\ Idle
    /\ resp' = [route |-> "/jobs", req |-> NoReq, code |-> 200,
                body |-> [jobs |-> JobsResponse(Mem)], down |-> NoCall]
    /\ UNCHANGED <<engine, ui, config, Mem, worker, files, up, proxy, clock>>

(* ----------------------------- GET /health ---------------------------- *)

\* What a handler of GET /health sends.  The running server has its own
\* route (part_010:105, server.ts:86); the express app exported by app.ts,
\* the one the backend's tests load, is in the repository in two versions
\* (part_011 from line 1 and from line 11).
HealthBody(handler) ==
    IF handler = "part_011:11" THEN [status |-> "ok"] ELSE [ok |-> TRUE]

\* res.json(...): status 200.
GetHealth(handler) ==
    /\ Idle
    /\ resp' = [route |-> "/health", req |-> [handler |-> handler], code |-> 200,
                body |-> HealthBody(handler), down |-> NoCall]
    /\ UNCHANGED <<engine, ui, config, Mem, worker, files, up, proxy, clock>>

(* ------------------------- GET /results/:jobId ------------------------ *)

\* The :jobId path parameters tried: every id a job can get, a string that
\* is no id, and a name found on Object.prototype.
RequestIds ==
    {newJobId(n) : n \in 1..MaxUploads} \cup {"nope", "constructor"}

ResultsResponse(M, jobId) ==
    LET got == getJob(M, jobId)
    IN  IF got.found = "none"
        THEN [code |-> 404, body |-> [error |-> "Not found"]]
        ELSE [code |-> 200,
              body |-> [jobId |-> got.job.jobId, status |-> got.job.status,
                        result |-> got.job.result, error |-> got.job.error]]

GetResults(jobId) ==
    LET r == ResultsResponse(Mem, jobId)
    IN  /\ Idle
        /\ resp' = [route |-> "/results", req |-> [jobId |-> jobId], code |-> r.code,
                    body |-> r.body, down |-> NoCall]
        /\ UNCHANGED <<engine, ui, config, Mem, worker, files, up, proxy, clock>>

(* --------------------- /analyze/* and /plot/* (part_010) -------------- *)

AnalyzeRoutes == {"/analyze/summary", "/analyze/distribution"}
PlotJsonRoutes == {"/plot/summary", "/plot/distribution", "/plot/ecdf", "/plot/qq"}
CsvRoutes == AnalyzeRoutes \cup {"/plot/from-csv"}
ProxyRoutes == CsvRoutes \cup PlotJsonRoutes

DownstreamUrl(route) ==
    CASE route = "/analyze/summary" -> "stats_rs/api/v1/stats/summary"
      [] route = "/analyze/distribution" -> "stats_rs/api/v1/stats/distribution"
      [] route = "/plot/from-csv" -> "plots_py/render-csv"
      [] OTHER -> "plots_py" \o route

IsSpace(c) == c \in {" ", "\t", "\n", "\r"}

RECURSIVE TrimStart(_)
TrimStart(s) ==
    IF s = <<>> THEN s
    ELSE IF IsSpace(Head(s)) THEN TrimStart(Tail(s)) ELSE s

RECURSIVE TrimEnd(_)
TrimEnd(s) ==
    IF s = <<>> THEN s
    ELSE IF IsSpace(s[Len(s)]) THEN TrimEnd(SubSeq(s, 1, Len(s) - 1)) ELSE s

\* Mutant: only leading white space is removed, and only one character.
trimFirst(s) == IF s # <<>> /\ IsSpace(Head(s)) THEN Tail(s) ELSE s

\* String.prototype.trim, a string being the sequence of its characters.
trim(s) == TrimEnd(TrimStart(s))

\* req.body as the handler of a CSV route reads it: undefined (nothing was
\* parsed), a string (express.text parsed it: `text`, its characters), or
\* an object (express.json parsed it: `json`).
CsvBodies ==
    { [type |-> "undefined", text |-> <<>>, json |-> ""],
      [type |-> "object", text |-> <<>>, json |-> "{}"],
      [type |-> "string", text |-> <<>>, json |-> ""],
      [type |-> "string", text |-> <<" ", "\n">>, json |-> ""],
      [type |-> "string", text |-> <<"\t">>, json |-> ""],
      [type |-> "string", text |-> <<"1", ",", "2">>, json |-> ""],
      [type |-> "string", text |-> <<" ", "7", "\n">>, json |-> ""] }

\* The body of a downstream request: its content-type and the CSV text or
\* the JSON text sent.
CsvRequest(csv) == [ctype |-> "text/csv", text |-> csv, json |-> ""]
JsonRequest(json) == [ctype |-> "application/json", text |-> <<>>, json |-> json]

\* What a CSV route does with req.body: 400 on an empty CSV, the catch
\* block's 502 when .trim is no function, or the call with the body.
CsvDecision(body) ==
    IF body.type = "object"
    THEN [do |-> "respond", code |-> 502, error |-> "csv.trim is not a function", csv |-> <<>>]
    ELSE LET csv == IF body.type = "undefined" THEN <<>> ELSE body.text
         IN  IF trim(csv) = <<>>
             THEN [do |-> "respond", code |-> 400, error |-> "empty CSV body", csv |-> csv]
             ELSE [do |-> "fetch", code |-> 0, error |-> Undefined, csv |-> csv]

CsvRoute(route, body) ==
    LET d == CsvDecision(body)
    IN  /\ Idle
        /\ build = "part_010"
        /\ IF d.do = "fetch"
           THEN /\ Cardinality(proxy) < MaxProxy
                /\ proxy' = proxy \cup {[route |-> route,
                                         req |-> [body |-> body, title |-> Undefined],
                                         url |-> DownstreamUrl(route),
                                         body |-> CsvRequest(d.csv)]}
                /\ resp' = NoResp
           ELSE /\ resp' = [route |-> route, req |-> [body |-> body, title |-> Undefined],
                            code |-> d.code, body |-> [error |-> d.error], down |-> NoCall]
                /\ UNCHANGED proxy
        /\ UNCHANGED <<engine, ui, config, Mem, worker, files, up, clock>>

\* encodeURIComponent(String(req.query.title))
encodeURIComponent(t) ==
    CASE t = "A B" -> "A%20B"
      [] t = "a&b" -> "a%26b"
      [] OTHER -> t

Titles == {Undefined, "", "A B"}

TitleQuery(title) ==
    IF title = Undefined \/ title = "" THEN ""
    ELSE "?title=" \o encodeURIComponent(title)

\* req.body of a /plot/<kind> route: undefined, or the parsed JSON object.
JsonBodies ==
    { [type |-> "undefined", text |-> <<>>, json |-> ""],
      [type |-> "object", text |-> <<>>, json |-> "{count:5}"] }

\* JSON.stringify(req.body ?? {})
StringifyBody(b) == IF b.type = "undefined" THEN "{}" ELSE b.json

PlotRoute(route, body, title) ==
    /\ Idle
    /\ build = "part_010"
    /\ Cardinality(proxy) < MaxProxy
    /\ proxy' = proxy \cup {[route |-> route, req |-> [body |-> body, title |-> title],
                             url |-> DownstreamUrl(route) \o TitleQuery(title),
                             body |-> JsonRequest(StringifyBody(body))]}
    /\ resp' = NoResp
    /\ UNCHANGED <<engine, ui, config, Mem, worker, files, up, clock>>

\* The answer of a proxy route once its downstream call has settled with r.
ProxyAnswer(p, r) ==
    LET d == IF p.route \in AnalyzeRoutes THEN fetchJSON(p.url, r) ELSE fetchPNG(p.url, r)
    IN  IF d.threw
        THEN [code |-> 502, body |-> [error |-> d.value]]
        ELSE [code |-> 200, body |-> [data |-> d.value]]

ProxyReturns(p, r) ==
    LET a == ProxyAnswer(p, r)
    IN  /\ Idle
        /\ p \in proxy
        /\ proxy' = proxy \ {p}
        /\ resp' = [route |-> p.route, req |-> p.req, code |-> a.code,
                    body |-> a.body, down |-> r]
        /\ UNCHANGED <<engine, ui, config, Mem, worker, files, up, clock>>

(* --------------------------- specification ---------------------------- *)

Jobs == 1..Len(Mem)

\* The job machine: uploads, their workers, and the two GET routes.
NextJob ==
    \/ Tick
    \/ \E meta \in MetaInputs, hasFile \in BOOLEAN : Upload(meta, hasFile)
    \/ UploadSpawn
    \/ UploadRespond
    \/ \E i \in Jobs : UpdateOneReturns(i)
    \/ \E i \in Jobs : WorkerResume(i)
    \/ \E i \in Jobs, readOk \in BOOLEAN : ReadFileReturns(i, readOk)
    \/ \E i \in Jobs, r \in DownOutcomes : FetchReturns(i, r)
    \/ \E i \in Jobs, writeOk \in BOOLEAN : WriteFileReturns(i, writeOk)
    \/ GetJobs
    \/ \E jobId \in RequestIds : GetResults(jobId)

\* The proxy routes of part_010.
NextProxy ==
    \/ \E route \in CsvRoutes, body \in CsvBodies : CsvRoute(route, body)
    \/ \E route \in PlotJsonRoutes, body \in JsonBodies, title \in Titles :
          PlotRoute(route, body, title)
    \/ \E p \in proxy, r \in DownOutcomes : ProxyReturns(p, r)

Next ==
    \/ NextJob
    \/ NextProxy
    \/ \E handler \in {build, "part_011:1", "part_011:11"} : GetHealth(handler)

Spec == Init /\ [][Next]_vars

JobSpec == Init /\ [][NextJob]_vars

InitProxy == Init /\ build = "part_010"

ProxySpec == InitProxy /\ [][NextProxy]_vars

(* Two jobs in flight.  The store of InitPair is the one left by an       *)
(* accepted upload made before the run began: its job is in the state its  *)
(* worker reaches without any answer from outside (waiting for the         *)
(* downstream call, or succeeded with the canned result).                  *)
EarlierDoc(kind) ==
    [jobId |-> newJobId(1), kind |-> kind,
     status |-> IF FAKE_SERVICES THEN "succeeded" ELSE "running",
     filePath |-> "uploads/" \o savedFilename(0),
     params |-> "{}", createdAt |-> 0, updatedAt |-> 0,
     error |-> Undefined,
     result |-> IF FAKE_SERVICES THEN FakeResult(kind) ELSE Undefined]

InitPair ==
    /\ build \in Builds
    /\ NO_DB \in BOOLEAN
    /\ build = "part_010" => NO_DB
    /\ FAKE_SERVICES \in BOOLEAN
    /\ \E kind \in JobKind : Mem = <<EarlierDoc(kind)>>
    /\ worker = <<[pc |-> IF FAKE_SERVICES THEN "done" ELSE "fetch", down |-> NoCall]>>
    /\ files = {savedFilename(0)}
    /\ up = IdleUp
    /\ proxy = {}
    /\ resp = NoResp
    /\ clock = 0
    /\ EngineIdle
    /\ Mounted

NextPair ==
    \/ \E meta \in MetaInputs, hasFile \in BOOLEAN : Upload(meta, hasFile)
    \/ UploadSpawn
    \/ UploadRespond
    \/ \E i \in Jobs : UpdateOneReturns(i)
    \/ \E i \in Jobs : WorkerResume(i)
    \/ \E i \in Jobs, readOk \in BOOLEAN : ReadFileReturns(i, readOk)
    \/ \E i \in Jobs, r \in DownOutcomes : FetchReturns(i, r)
    \/ \E i \in Jobs, writeOk \in BOOLEAN : WriteFileReturns(i, writeOk)

PairSpec == InitPair /\ [][NextPair]_vars

(* GET /jobs against a full store.  The store of InitList is the one left *)
(* by n accepted uploads, `perTick` of them per clock reading, whose       *)
(* downstream calls all failed with a network error.                       *)

NetworkError == [net |-> FALSE, status |-> 0, ctype |-> "none", body |-> ""]

StoredDoc(k, perTick) ==
    [jobId |-> newJobId(k), kind |-> IF k % 2 = 0 THEN "stats" ELSE "plot",
     status |-> "failed", filePath |-> "uploads/" \o savedFilename(k),
     params |-> "{}", createdAt |-> (k - 1) \div perTick,
     updatedAt |-> (k - 1) \div perTick,
     error |-> "fetch failed", result |-> Undefined]

InitList ==
    /\ build \in Builds
    /\ NO_DB \in BOOLEAN
    /\ build = "part_010" => NO_DB
    /\ FAKE_SERVICES = FALSE
    /\ \E n \in (JobsLimit - 2)..MaxStored, perTick \in 1..2 :
          /\ Mem = [k \in 1..n |-> StoredDoc(k, perTick)]
          /\ worker = [k \in 1..n |-> [pc |-> "done", down |-> NetworkError]]
          /\ files = {savedFilename(k) : k \in 1..n}
          /\ clock = n \div perTick
    /\ up = IdleUp
    /\ proxy = {}
    /\ resp = NoResp
    /\ EngineIdle
    /\ Mounted

NextList ==
    \/ GetJobs
    \/ \E jobId \in RequestIds : GetResults(jobId)

ListSpec == InitList /\ [][NextList]_vars

(* The event loop runs every continuation whose promise has settled, and   *)
(* the local file system answers; nothing makes stats_rs or plots_py       *)
(* answer (FetchReturns, ProxyReturns carry no fairness).                  *)
Fairness ==
    /\ WF_vars(UploadSpawn)
    /\ WF_vars(UploadRespond)
    /\ WF_vars(\E i \in Jobs : UpdateOneReturns(i))
    /\ WF_vars(\E i \in Jobs : WorkerResume(i))
    /\ WF_vars(\E i \in Jobs, readOk \in BOOLEAN : ReadFileReturns(i, readOk))
    /\ WF_vars(\E i \in Jobs, writeOk \in BOOLEAN : WriteFileReturns(i, writeOk))

FairJobSpec == JobSpec /\ Fairness

\* The job machine whose every awaited operation settles: the steps of
\* FairJobSpec, and the downstream call of every job returning, with a
\* value or an error, while the database may be out of reach when the
\* worker writes the outcome.
SettlingJobSpec ==
    /\ Init
    /\ [][\/ NextJob
          \/ \E i \in Jobs, r \in DownOutcomes, back \in BOOLEAN :
                UpdateOneRejects(i, r, back)]_vars
    /\ Fairness
    /\ WF_vars(\E i \in Jobs, r \in DownOutcomes :
                  \/ FetchReturns(i, r)
                  \/ \E back \in BOOLEAN : UpdateOneRejects(i, r, back))

(* ======================= the statistics engine ======================== *)
(* stats_rs.  The operations are written from the engine's specification:  *)
(* each is a pure function of the payload the caller hands over, and an    *)
(* action applies it and records what it returned.  Arithmetic is exact:   *)
(* a real-valued field is kept as numerators over a common denominator;    *)
(* the rounding of 64-bit floats is not represented.                       *)

Samples == UNION {[1..n -> 0..MaxValue] : n \in 0..MaxLen}

failure(kind) == [ok |-> FALSE, error |-> kind]

RECURSIVE SumSeq(_)
SumSeq(q) == IF Len(q) = 0 THEN 0 ELSE q[1] + SumSeq(Tail(q))

Min(s) == CHOOSE v \in {s[i] : i \in 1..Len(s)} : \A i \in 1..Len(s) : v <= s[i]

Max(s) == CHOOSE v \in {s[i] : i \in 1..Len(s)} : \A i \in 1..Len(s) : v >= s[i]

\* A sorted copy (ascending, equal values in their original order).
SortCopy(s) ==
    LET before(i) == Cardinality({j \in 1..Len(s) :
                        s[j] < s[i] \/ (s[j] = s[i] /\ j < i)})
    IN  [k \in 1..Len(s) |-> s[CHOOSE i \in 1..Len(s) : before(i) = k - 1]]

\* The sort done in place, on the caller's sample.
AfterCallSorted(p) ==
    IF p.kind = "sample" THEN [p EXCEPT !.values = SortCopy(@)] ELSE p

\* Modules operate on copies: the caller's payload after a call.
AfterCall(p) == p

\* Four times the type-7 quantile at p = q/4: position (n-1)p, linear
\* interpolation between the neighbours.
Quantile4(sorted, q) ==
    LET h == (Len(sorted) - 1) * q
        lo == h \div 4 + 1
        r == h % 4
    IN  IF r = 0 THEN 4 * sorted[lo]
        ELSE 4 * sorted[lo] + r * (sorted[lo + 1] - sorted[lo])

(* ------------------------- distribution ------------------------------- *)

\* DistIn{values, bins? | rule?}
BinChoices ==
    [rule : {"fixed"}, bins : 1..MaxBins]
        \cup [rule : {"sturges", "scott", "fd", "auto"}, bins : {0}]

\* ceil(log2(n) + 1)
Sturges(n) == 1 + (CHOOSE c \in 0..n : 2^c >= n /\ (c = 0 \/ 2^(c - 1) < n))

\* ceil((max - min) / (2 IQR n^(-1/3))), for IQR > 0: the least b with
\* (b * 4 IQR)^3 >= (2 * (max - min))^3 * n.
FreedmanDiaconis(s) ==
    LET sorted == SortCopy(s)
        iqr4 == Quantile4(sorted, 3) - Quantile4(sorted, 1)
        range == Max(s) - Min(s)
        enough(b) == (b * iqr4)^3 >= 8 * range^3 * Len(s)
    IN  CHOOSE b \in 1..(2 * range * Len(s)) :
            enough(b) /\ (b = 1 \/ ~enough(b - 1))

\* The bin counts a choice allows for a non-degenerate sample.  Scott's
\* count is irrational arithmetic and stands for any positive count; the
\* Freedman-Diaconis count with IQR = 0 is not given a value and stands for
\* any positive count too.
BinCounts(s, choice) ==
    LET sorted == SortCopy(s)
        iqr4 == Quantile4(sorted, 3) - Quantile4(sorted, 1)
    IN  CASE choice.rule = "fixed" -> {choice.bins}
          [] choice.rule = "sturges" -> {Sturges(Len(s))}
          [] choice.rule = "scott" -> 1..MaxBins
          [] choice.rule = "fd" ->
                IF iqr4 = 0 THEN 1..MaxBins ELSE {FreedmanDiaconis(s)}
          [] choice.rule = "auto" ->
                IF iqr4 = 0 THEN {Sturges(Len(s))} ELSE {FreedmanDiaconis(s)}

\* Bins are half-open and the scan stops at max: a value that is the
\* maximum is lost.
BinOfHalfOpen(v, lo, hi, k) == ((v - lo) * k) \div (hi - lo) + 1

\* The bin (1..k) of value v: equal-width bins over [lo, hi], the last one
\* closed on the right.
BinOf(v, lo, hi, k) ==
    LET j == ((v - lo) * k) \div (hi - lo)
    IN  IF j >= k THEN k ELSE j + 1

\* Edges are num[j] / den.  Degenerate sample (max = min): one bin over the
\* range widened by epsilon = 1/2 on each side.
Histogram(s, k) ==
    LET lo == Min(s)
        hi == Max(s)
    IN  IF hi = lo
        THEN [counts |-> <<Len(s)>>,
              edges |-> [num |-> <<2 * lo - 1, 2 * hi + 1>>, den |-> 2]]
        ELSE [counts |-> [j \in 1..k |->
                  Cardinality({i \in 1..Len(s) : BinOf(s[i], lo, hi, k) = j})],
              edges |-> [num |-> [j \in 1..(k + 1) |-> lo * k + (j - 1) * (hi - lo)],
                         den |-> k]]

\* quantiles are the quartiles, in quarters; skewness, excess kurtosis and
\* entropy are real-valued moments and are left out of the record.
distribution(s, k) ==
    IF Len(s) = 0 THEN failure("InvalidInput")
    ELSE LET h == Histogram(s, k)
             sorted == SortCopy(s)
         IN  [ok |-> TRUE, counts |-> h.counts, edges |-> h.edges,
              quantiles |-> [q \in 1..3 |-> Quantile4(sorted, q)]]

Distribution(choice) ==
    /\ payload.kind = "sample"
    /\ \E k \in (IF Len(payload.values) = 0 THEN {1}
                 ELSE BinCounts(payload.values, choice)) :
          ret' = [op |-> "distribution", choice |-> choice,
                  res |-> distribution(payload.values, k)]
    /\ payload' = AfterCall(payload)
    /\ UNCHANGED <<backend, ui>>

(* ------------------------------ ecdf ---------------------------------- *)

\* EcdfIn{values, max_points?}
EcdfOptions == {[set |-> FALSE, max_points |-> 0]} \cup [set : {TRUE}, max_points : 1..MaxLen]

\* The first m points, the tail cut off.
DecimateHead(n, m) == [k \in 1..m |-> k]

\* The indices kept of n > m >= 2 sorted points: uniform in the index, the
\* first and the last among them.
Decimate(n, m) == [k \in 1..m |-> 1 + ((k - 1) * (n - 1)) \div (m - 1)]

\* The points of the sorted sample at the indices idx; ps[j] = num[j] / den.
EcdfPoints(s, idx) ==
    LET sorted == SortCopy(s)
    IN  [ok |-> TRUE, xs |-> [j \in 1..Len(idx) |-> sorted[idx[j]]],
         ps |-> [num |-> idx, den |-> Len(s)]]

\* What a call may return.  One point cannot be both the first and the last
\* of n >= 2: for max_points = 1 < n the contract names no outcome, and the
\* call keeps both ends, or one of them, or fails.
ecdf(s, opt) ==
    LET n == Len(s)
    IN  IF n = 0 THEN <<failure("InvalidInput")>>
        ELSE IF ~opt.set \/ n <= opt.max_points
        THEN <<EcdfPoints(s, [i \in 1..n |-> i])>>
        ELSE IF opt.max_points >= 2
        THEN <<EcdfPoints(s, Decimate(n, opt.max_points))>>
        ELSE <<EcdfPoints(s, <<1, n>>), EcdfPoints(s, <<1>>),
               EcdfPoints(s, <<n>>), failure("InvalidParameters")>>

Ecdf(opt) ==
    /\ payload.kind = "sample"
    /\ \E i \in DOMAIN ecdf(payload.values, opt) :
          ret' = [op |-> "ecdf", opt |-> opt, res |-> ecdf(payload.values, opt)[i]]
    /\ payload' = AfterCall(payload)
    /\ UNCHANGED <<backend, ui>>

(* --------------------------- correlation ------------------------------ *)

CorrMethod == {"pearson", "spearman", "kendall"}

\* A coefficient is num / sqrt(den2), or null.
Ratio(num, den2) ==
    IF den2 = 0 THEN [null |-> TRUE, num |-> 0, den2 |-> 0]
    ELSE [null |-> FALSE, num |-> num, den2 |-> den2]

\* n * sum(ab) - sum(a) sum(b): n^2 times the covariance of a and b.
CrossSum(a, b) ==
    Len(a) * SumSeq([i \in 1..Len(a) |-> a[i] * b[i]]) - SumSeq(a) * SumSeq(b)

pearson(x, y) == Ratio(CrossSum(x, y), CrossSum(x, x) * CrossSum(y, y))

\* Pearson on the mid-ranks (ties averaged), taken twice to stay whole.
spearman(x, y) ==
    LET MidRanks2(a) ==
            [i \in 1..Len(a) |-> 2 * Cardinality({j \in 1..Len(a) : a[j] < a[i]})
                                  + Cardinality({j \in 1..Len(a) : a[j] = a[i]}) + 1]
    IN  pearson(MidRanks2(x), MidRanks2(y))

\* tau-b: (concordant - discordant) / sqrt((n0 - ties in x)(n0 - ties in y)).
kendall(x, y) ==
    LET pairs == {p \in (1..Len(x)) \X (1..Len(x)) : p[1] < p[2]}
        sign(p) == (x[p[1]] - x[p[2]]) * (y[p[1]] - y[p[2]])
        tied(a) == Cardinality({p \in pairs : a[p[1]] = a[p[2]]})
    IN  Ratio(Cardinality({p \in pairs : sign(p) > 0})
                - Cardinality({p \in pairs : sign(p) < 0}),
              (Cardinality(pairs) - tied(x)) * (Cardinality(pairs) - tied(y)))

Coefficient(method, x, y) ==
    CASE method = "pearson" -> pearson(x, y)
      [] method = "spearman" -> spearman(x, y)
      [] method = "kendall" -> kendall(x, y)

\* The diagonal left to the pairwise formula.
DiagonalPairwise(method, x) == Coefficient(method, x, x)

\* A series against itself is 1.0.
Diagonal(method, x) == Ratio(1, 1)

\* matrix is row-major, size x size.
corr_matrix(series, method) ==
    LET size == Len(series)
        row(c) == (c - 1) \div size + 1
        col(c) == ((c - 1) % size) + 1
    IN  IF \E i \in 1..size : Len(series[i]) = 0 \/ Len(series[i]) # Len(series[1])
        THEN failure("InvalidInput")
        ELSE [ok |-> TRUE, size |-> size,
              matrix |-> [c \in 1..(size * size) |->
                  IF row(c) = col(c) THEN Diagonal(method, series[row(c)])
                  ELSE Coefficient(method, series[row(c)], series[col(c)])]]

\* Series of one value are below the minimum of a variance (n >= 2); the
\* contract of corr_matrix does not say whether they are refused.
CorrMatrix(method) ==
    /\ payload.kind = "series"
    /\ \/ ret' = [op |-> "corr_matrix", method |-> method,
                  res |-> corr_matrix(payload.series, method)]
       \/ /\ \A i \in 1..Len(payload.series) : Len(payload.series[i]) = 1
          /\ ret' = [op |-> "corr_matrix", method |-> method,
                     res |-> failure("InsufficientSample")]
    /\ payload' = AfterCall(payload)
    /\ UNCHANGED <<backend, ui>>

(* ===================== the frontend: lib/api.ts ======================= *)

\* csv.split(/[\n,]/g): the pieces between separators, empty ones included.
split(csv) ==
    LET seps == {i \in 1..Len(csv) : csv[i] \in {"\n", ","}}
        cut(k) == IF k = 0 THEN 0
                  ELSE IF k > Cardinality(seps) THEN Len(csv) + 1
                  ELSE CHOOSE i \in seps : Cardinality({j \in seps : j < i}) = k - 1
    IN  [k \in 1..(Cardinality(seps) + 1) |->
            SubSeq(csv, cut(k - 1) + 1, cut(k) - 1)]

\* Number(string): white space is stripped, the empty string is 0, a signed
\* decimal numeral is its value, the word Infinity is infinite, anything
\* else is NaN.
Number(str) ==
    LET t == trim(str)
        negative == t # <<>> /\ Head(t) = "-"
        body == IF negative THEN Tail(t) ELSE t
        digit(c) == IF c = "7" THEN 7 ELSE 0
    IN  IF t = <<>> THEN [class |-> "finite", v |-> 0]
        ELSE IF body # <<>> /\ \A i \in 1..Len(body) : body[i] \in {"0", "7"}
        THEN [class |-> "finite",
              v |-> (IF negative THEN -1 ELSE 1)
                    * SumSeq([i \in 1..Len(body) |->
                                 digit(body[i]) * 10^(Len(body) - i)])]
        ELSE IF body = <<"Infinity">>
        THEN [class |-> IF negative THEN "-Infinity" ELSE "Infinity", v |-> 0]
        ELSE [class |-> "NaN", v |-> 0]

\* filter(Boolean) placed after map(Number): it drops the falsy numbers 0
\* and NaN instead of the empty cells.
csvToNumbersTruthy(csv) ==
    LET cells == [k \in DOMAIN split(csv) |-> Number(trim(split(csv)[k]))]
        kept == SelectSeq(cells, LAMBDA x : x.class # "NaN" /\ x # Number(<<>>))
        finite == SelectSeq(kept, LAMBDA x : x.class = "finite")
    IN  [k \in DOMAIN finite |-> finite[k].v]

csvToNumbers(csv) ==
    LET cells == [k \in DOMAIN split(csv) |-> trim(split(csv)[k])]
        kept == SelectSeq(cells, LAMBDA c : c # <<>>)
        nums == [k \in DOMAIN kept |-> Number(kept[k])]
        finite == SelectSeq(nums, LAMBDA x : x.class = "finite")
    IN  [k \in DOMAIN finite |-> finite[k].v]

CsvToNumbers ==
    /\ payload.kind = "csv"
    /\ ret' = [op |-> "csvToNumbers",
               res |-> [ok |-> TRUE, values |-> csvToNumbers(payload.text)]]
    /\ payload' = payload
    /\ UNCHANGED <<backend, ui>>

(* ------------- validator, descriptive statistics, tests --------------- *)

\* Ordinary least squares admitted on two points.
MinSizeOls2(op) ==
    CASE op = "describe" -> 1
      [] op \in {"pairwise", "ttest", "anova1", "ols_simple"} -> 2

\* Minimum sizes: descriptive statistics 1, variance-based statistics 2,
\* t-test and ANOVA 2 per group, OLS 3.
MinSize(op) ==
    CASE op = "describe" -> 1
      [] op \in {"pairwise", "ttest", "anova1"} -> 2
      [] op = "ols_simple" -> 3

\* The strict path: a structured payload is refused when an entry is not
\* finite or a group is empty, when the vectors of a paired operation
\* differ in length, and when a group has fewer values than the operation
\* needs.
Validate(op, p) ==
    IF p.nonfinite # {} THEN failure("InvalidInput")
    ELSE IF \E g \in 1..Len(p.groups) : Len(p.groups[g]) = 0
    THEN failure("InvalidInput")
    ELSE IF op \in {"pairwise", "ols_simple"} /\ Len(p.groups[1]) # Len(p.groups[2])
    THEN failure("InvalidInput")
    ELSE IF \E g \in 1..Len(p.groups) : Len(p.groups[g]) < MinSize(op)
    THEN failure("InsufficientSample")
    ELSE [ok |-> TRUE]

\* median and iqr in quarters, mad in sixteenths, std as its square
\* (null below two values).
describe(p) ==
    LET s == p.groups[1]
        n == Len(s)
        sorted == SortCopy(s)
        median4 == Quantile4(sorted, 2)
        dev == [i \in 1..n |-> IF 4 * s[i] >= median4 THEN 4 * s[i] - median4
                               ELSE median4 - 4 * s[i]]
    IN  [ok |-> TRUE, count |-> n,
         mean |-> [num |-> SumSeq(s), den |-> n],
         median4 |-> median4,
         std2 |-> IF n < 2 THEN [null |-> TRUE, num |-> 0, den |-> 1]
                  ELSE [null |-> FALSE, num |-> CrossSum(s, s),
                        den |-> n * (n - 1)],
         min |-> Min(s), max |-> Max(s),
         iqr4 |-> Quantile4(sorted, 3) - Quantile4(sorted, 1),
         mad16 |-> Quantile4(SortCopy(dev), 2)]

pairwise(p) ==
    LET x == p.groups[1]
        y == p.groups[2]
    IN  [ok |-> TRUE,
         covariance |-> [num |-> CrossSum(x, y), den |-> Len(x) * (Len(x) - 1)],
         pearson |-> pearson(x, y), spearman |-> spearman(x, y),
         kendall |-> kendall(x, y)]

\* t, p, ci and cohenD are real-valued and left out; df is the pooled one.
\* Two groups without variance leave the statistic without a value.
ttest(p) ==
    LET x == p.groups[1]
        y == p.groups[2]
    IN  IF CrossSum(x, x) = 0 /\ CrossSum(y, y) = 0 THEN failure("DivisionByZero")
        ELSE [ok |-> TRUE,
              meanX |-> [num |-> SumSeq(x), den |-> Len(x)],
              meanY |-> [num |-> SumSeq(y), den |-> Len(y)],
              df |-> Len(x) + Len(y) - 2]

\* F and p are real-valued and left out.  A within-group mean square of
\* zero leaves F without a value.
anova1(p) ==
    LET k == Len(p.groups)
        N == SumSeq([g \in 1..k |-> Len(p.groups[g])])
    IN  IF \A g \in 1..k : CrossSum(p.groups[g], p.groups[g]) = 0
        THEN failure("DivisionByZero")
        ELSE [ok |-> TRUE, df_between |-> k - 1, df_within |-> N - k]

\* Closed-form least squares from the sums of squares; standard errors,
\* t, p, r2 and the intervals are real-valued and left out.
ols_simple(p) ==
    LET x == p.groups[1]
        y == p.groups[2]
        n == Len(x)
    IN  IF CrossSum(x, x) = 0 THEN failure("InvalidInput")
        ELSE [ok |-> TRUE,
              beta1 |-> [num |-> CrossSum(x, y), den |-> CrossSum(x, x)],
              beta0 |-> [num |-> SumSeq(y) * CrossSum(x, x) - CrossSum(x, y) * SumSeq(x),
                         den |-> n * CrossSum(x, x)],
              df |-> n - 2]

\* One call of an operation on a structured payload: the validator, then
\* the operation.
Call(op) ==
    /\ payload.kind = "numbers"
    /\ CASE op = "describe" -> Len(payload.groups) = 1
         [] op = "anova1" -> Len(payload.groups) >= 2
         [] OTHER -> Len(payload.groups) = 2
    /\ ret' = [op |-> op,
               res |-> IF ~Validate(op, payload).ok THEN Validate(op, payload)
                       ELSE CASE op = "describe" -> describe(payload)
                              [] op = "pairwise" -> pairwise(payload)
                              [] op = "ttest" -> ttest(payload)
                              [] op = "anova1" -> anova1(payload)
                              [] op = "ols_simple" -> ols_simple(payload)]
    /\ payload' = AfterCall(payload)
    /\ UNCHANGED <<backend, ui>>

(* ------------------------ chi-square ---------------------------------- *)

\* Only the row sums are looked at before the table is used.
chisqRowsOnly(table, yates) ==
    LET rows == Len(table)
        cols == Len(table[1])
        rowSum(i) == SumSeq(table[i])
        colSum(j) == SumSeq([i \in 1..rows |-> table[i][j]])
    IN  IF \E i \in 1..rows : rowSum(i) = 0
        THEN failure("InvalidInput")
        ELSE [ok |-> TRUE, df |-> (rows - 1) * (cols - 1),
              expected |-> [num |-> [i \in 1..rows |->
                                        [j \in 1..cols |-> rowSum(i) * colSum(j)]],
                            den |-> SumSeq([i \in 1..rows |-> rowSum(i)])]]

\* expected[i][j] = num[i][j] / den; x2 and p are real-valued and left out.
chisq(table, yates) ==
    LET rows == Len(table)
        cols == Len(table[1])
        rowSum(i) == SumSeq(table[i])
        colSum(j) == SumSeq([i \in 1..rows |-> table[i][j]])
    IN  IF (\E i \in 1..rows : rowSum(i) = 0) \/ (\E j \in 1..cols : colSum(j) = 0)
        THEN failure("InvalidInput")
        ELSE [ok |-> TRUE, df |-> (rows - 1) * (cols - 1),
              expected |-> [num |-> [i \in 1..rows |->
                                        [j \in 1..cols |-> rowSum(i) * colSum(j)]],
                            den |-> SumSeq([i \in 1..rows |-> rowSum(i)])]]

Chisq(yates) ==
    /\ payload.kind = "table"
    /\ ret' = [op |-> "chisq", yates |-> yates, res |-> chisq(payload.table, yates)]
    /\ payload' = AfterCall(payload)
    /\ UNCHANGED <<backend, ui>>

(* -------------------- engine specifications --------------------------- *)

\* The backend and the frontend at rest while the engine is exercised.
AtRest ==
    /\ build = "part_010"
    /\ NO_DB = TRUE
    /\ FAKE_SERVICES = FALSE
    /\ Mem = <<>>
    /\ worker = <<>>
    /\ files = {}
    /\ up = IdleUp
    /\ proxy = {}
    /\ resp = NoResp
    /\ clock = 0
    /\ Mounted

SamplePayloads == [kind : {"sample"}, values : Samples]

InitDist ==
    /\ AtRest
    /\ payload \in SamplePayloads
    /\ ret = NoRet

DistSpec == InitDist /\ [][\E choice \in BinChoices : Distribution(choice)]_vars


InitEcdf ==
    /\ AtRest
    /\ payload \in [kind : {"sample"},
                    values : UNION {[1..n -> 0..MaxValue] : n \in 0..(MaxLen + 1)}]
    /\ ret = NoRet

EcdfSpec == InitEcdf /\ [][\E opt \in EcdfOptions : Ecdf(opt)]_vars


\* The payloads the engine is exercised on: samples; one to three named
\* series of values 0..2; CSV texts, whose characters are separators, white
\* space, digits, a sign, "a" for a character that is no part of a number
\* and the words NaN and Infinity; structured numeric payloads of one to
\* three arrays of 0s and 1s, where an entry listed in `nonfinite` is NaN or
\* an infinity instead; contingency tables of counts 0..2.
InitEngine ==
    LET Series(n) == [1..n -> 0..2]
        CsvChars == {",", "\n", " ", "0", "7", "-", "a", "NaN", "Infinity"}
        Array(n) == UNION {[1..m -> 0..1] : m \in 0..n}
        Groups == UNION {[1..k -> Array(MaxLen)] : k \in 1..2} \cup [1..3 -> Array(2)]
        Entries(g) == {{}} \cup
            {{[group |-> 1, index |-> 1, value |-> v]} :
                v \in IF Len(g[1]) > 0 /\ g[1][1] = 0
                      THEN {"NaN", "Infinity", "-Infinity"} ELSE {}}
    IN  /\ AtRest
        /\ \/ payload \in SamplePayloads
           \/ payload \in [kind : {"series"},
                           series : UNION ({[1..k -> Series(n)] : k \in 1..2, n \in 1..MaxLen}
                                       \cup {[1..3 -> Series(2)], Series(1) \X Series(2)})]
           \/ payload \in [kind : {"csv"},
                           text : UNION {[1..n -> CsvChars] : n \in 0..MaxCsv}]
           \/ payload \in UNION {[kind : {"numbers"}, groups : {g},
                                  nonfinite : Entries(g)] : g \in Groups}
           \/ payload \in [kind : {"table"},
                           table : UNION {[1..r -> [1..c -> 0..2]] :
                                            r \in 1..2, c \in 1..MaxLen}]
        /\ ret = NoRet

NextEngine ==
    \/ \E choice \in BinChoices : Distribution(choice)
    \/ \E opt \in EcdfOptions : Ecdf(opt)
    \/ \E method \in CorrMethod : CorrMatrix(method)
    \/ CsvToNumbers
    \/ \E op \in {"describe", "pairwise", "ttest", "anova1", "ols_simple"} : Call(op)
    \/ \E yates \in BOOLEAN : Chisq(yates)

EngineSpec == InitEngine /\ [][NextEngine]_vars


(* ================= the frontend: App and AnalyzePanel ================= *)

\* The files the user can choose; a file stands for its CSV text, and a
\* summary or distribution on screen is named by the file it was computed
\* from.
Files == {"a.csv", "b.csv"}

\* disabled={!file}: the button ignores busy.
ButtonDisabledNoBusy(f, b) == f = Null

\* disabled={!file || busy}
ButtonDisabled(f, b) == f = Null \/ b

\* onChange of the file input: setFile(e.target.files?.[0] ?? null).  The
\* update of a discrete event is committed before the next event.
PickFile(f) ==
    /\ file' = f
    /\ disabled' = ButtonDisabled(f, busy)
    /\ UNCHANGED <<backend, engine, busy, err, summary, dist, runs>>

\* A click reaches onClick only while the button in the DOM is enabled.
\* handleClick, then handleCalculate up to its first await; the updates are
\* committed before the next event.
Click ==
    /\ ~disabled
    /\ IF file = Null
       THEN UNCHANGED <<busy, err, runs, disabled>>
       ELSE /\ busy' = TRUE
            /\ err' = Null
            /\ runs' = Append(runs, [pc |-> "readCsvFile", file |-> file])
            /\ disabled' = ButtonDisabled(file, TRUE)
    /\ UNCHANGED <<backend, engine, file, summary, dist>>

\* Mutant: the catch block leaves err as it is.
MessageDropped(step) == Null

\* catch: msg = e instanceof Error ? e.message : "Calculation failed".  The
\* message names the step that threw.
Message(step) == step \o " failed"

\* The promise run i of handleCalculate awaits settles, and the run goes on
\* to its next await or to its end (catch and finally included).  State set
\* here is committed by a later Render.
AwaitReturns(i, resolved) ==
    LET run == runs[i]
        rest == SubSeq(runs, 1, i - 1) \o SubSeq(runs, i + 1, Len(runs))
    IN  /\ IF ~resolved
           THEN /\ err' = Message(run.pc)
                /\ busy' = FALSE
                /\ runs' = rest
                /\ UNCHANGED <<summary, dist>>
           ELSE CASE run.pc = "readCsvFile" ->
                       /\ runs' = [runs EXCEPT ![i].pc = "statsSummaryFromCsv"]
                       /\ UNCHANGED <<busy, err, summary, dist>>
                  [] run.pc = "statsSummaryFromCsv" ->
                       /\ summary' = run.file
                       /\ runs' = [runs EXCEPT ![i].pc = "statsDistributionFromCsv"]
                       /\ UNCHANGED <<busy, err, dist>>
                  [] run.pc = "statsDistributionFromCsv" ->
                       /\ dist' = run.file
                       /\ busy' = FALSE
                       /\ runs' = rest
                       /\ UNCHANGED <<err, summary>>
        /\ UNCHANGED <<backend, engine, file, disabled>>

\* React commits the pending state: the button is rendered again.
Render ==
    /\ disabled # ButtonDisabled(file, busy)
    /\ disabled' = ButtonDisabled(file, busy)
    /\ UNCHANGED <<backend, engine, file, busy, err, summary, dist, runs>>

InitUi == AtRest /\ EngineIdle

NextUi ==
    \/ \E f \in Files \cup {Null} : PickFile(f)
    \/ Click
    \/ \E i \in DOMAIN runs, resolved \in BOOLEAN : AwaitReturns(i, resolved)
    \/ Render

UiSpec == InitUi /\ [][NextUi]_vars

(* ============================== claims ================================ *)

ValidMetaTexts ==
    { "{\"kind\":\"stats\"}", "{\"kind\":\"plot\",\"params\":{\"bins\":5}}" }

\* The kind and params a valid metadata text states.
StatedKind(text) == IF text = "{\"kind\":\"stats\"}" THEN "stats" ELSE "plot"
StatedParams(text) == IF text = "{\"kind\":\"stats\"}" THEN "{}" ELSE "{bins:5}"

OwnJobs(M, jobId) == {i \in 1..Len(M) : M[i].jobId = jobId}

C2_SucceededOnlyAfter2xx ==
    \A i \in Jobs :
        /\ (Mem[i].status = "succeeded" /\ ~FAKE_SERVICES) =>
              /\ ok(worker[i].down)
              /\ Mem[i].result # Undefined
              /\ Mem[i].kind = "stats" => Mem[i].result = worker[i].down.body
        /\ (worker[i].down # NoCall /\ ~ok(worker[i].down)) =>
              /\ Mem[i].status = "failed"
              /\ Mem[i].error # Undefined

(* C3: the downstream services are called with a timeout: a running job    *)
(* does not stay running forever, also when its downstream call never      *)
(* returns.                                                                *)
C3_RunningJobSettles ==
    \A i \in 1..MaxUploads :
        (i \in Jobs /\ Mem[i].status = "running")
            ~> (i \in Jobs /\ Mem[i].status \in {"succeeded", "failed"})

(* C4: GET /jobs answers at most 50 entries, ordered by non-increasing     *)
(* createdAt, and no stored job left out is newer than a listed one, for   *)
(* any number of stored jobs and in every job-store mode.                  *)
Listed(body) == {body[k].jobId : k \in DOMAIN body}

C4_AtMost50NewestFirst ==
    resp.route = "/jobs" =>
        LET jobs == resp.body.jobs
        IN  /\ Len(jobs) <= JobsLimit
            /\ Len(jobs) <= Len(Mem)
            /\ Len(Mem) <= JobsLimit => Len(jobs) = Len(Mem)
            /\ \A k \in 1..(Len(jobs) - 1) :
                  jobs[k].createdAt >= jobs[k + 1].createdAt
            /\ \A k \in DOMAIN jobs : OwnJobs(Mem, jobs[k].jobId) # {}
            /\ \A i \in Jobs, k \in DOMAIN jobs :
                  Mem[i].jobId \notin Listed(jobs)
                      => Mem[i].createdAt <= jobs[k].createdAt

(* C5: GET /results/{jobId} answers 404 exactly when no job with that      *)
(* jobId was inserted, for every string jobId; otherwise 200 with the      *)
(* job's jobId, status, result and error.                                  *)
C5_NotFoundIffNeverInserted ==
    resp.route = "/results" =>
        LET own == OwnJobs(Mem, resp.req.jobId)
        IN  /\ resp.code = 404 <=> own = {}
            /\ own # {} =>
                  /\ resp.code = 200
                  /\ \E i \in own :
                        resp.body = [jobId |-> Mem[i].jobId, status |-> Mem[i].status,
                                     result |-> Mem[i].result, error |-> Mem[i].error]

(* C6: on the CSV routes a request whose body is absent (req.body          *)
(* undefined), empty or made of white space only is answered 400, and no   *)
(* request is made to stats_rs or plots_py for it: none is in flight with  *)
(* such a body and none has come back.                                     *)
WhiteSpace == {" ", "\t", "\n", "\r"}

BlankBody(b) ==
    \/ b.type = "undefined"
    \/ b.type = "string" /\ \A k \in DOMAIN b.text : b.text[k] \in WhiteSpace

C7_ProxyStatus ==
    resp.route \in ProxyRoutes =>
        /\ resp.code = 200 =>
              /\ ok(resp.down)
              /\ resp.body = [data |-> resp.down.body]
        /\ (resp.down # NoCall /\ ~ok(resp.down)) =>
              /\ resp.code = 502
              /\ resp.body.error \notin {Undefined, ""}

C7_Witness ==
    /\ resp.route \in AnalyzeRoutes
    /\ resp.code = 502
    /\ resp.down.net
    /\ resp.down.status = 500
    /\ resp.down.ctype = "json"

(* C8: POST /upload without a file, or with metadata that does not match   *)
(* UploadJobInput (absent metadata included), is answered 400; it inserts  *)
(* no job and starts no processing.                                        *)
MatchesUploadJobInput(meta) == meta.present /\ meta.text \in ValidMetaTexts

C8_BadUploadRejected ==
    [][ (/\ resp'.route = "/upload"
         /\ (~resp'.req.hasFile \/ ~MatchesUploadJobInput(resp'.req.meta))) =>
            /\ resp'.code = 400
            /\ Mem' = Mem
            /\ worker' = worker
      ]_vars

(* C9: POST /upload whose metadata field is not parseable JSON is answered *)
(* 400, not 500, and creates no job.                                       *)
Unparseable(meta) == meta.present /\ JSONParse(meta.text).threw

C9_UnparseableMetadata400 ==
    [][ (resp'.route = "/upload" /\ Unparseable(resp'.req.meta)) =>
            /\ resp'.code = 400
            /\ resp'.code # 500
            /\ Len(Mem') = Len(Mem)
      ]_vars

(* C10: with FAKE_SERVICES set no request to stats_rs or plots_py is made  *)
(* by any operation (none in flight, none come back, for jobs and for the  *)
(* /analyze and /plot routes), and a job whose processing is over is       *)
(* succeeded with the canned result.                                       *)
C10_FakeServicesBypass ==
    FAKE_SERVICES =>
        /\ proxy = {}
        /\ resp.down = NoCall
        /\ \A i \in Jobs :
              /\ worker[i].pc \notin {"fetch", "writeFile"}
              /\ worker[i].down = NoCall
              /\ worker[i].pc = "done" =>
                    /\ Mem[i].status = "succeeded"
                    /\ Mem[i].result = FakeResult(Mem[i].kind)

(* ------------------------------- C11 ---------------------------------- *)

IsOrderStat(s, x, i) ==
    /\ Cardinality({j \in 1..Len(s) : s[j] < x}) < i
    /\ i <= Cardinality({j \in 1..Len(s) : s[j] <= x})

\* The ecdf contract for calls whose max_points, when set, is at least `least`.
EcdfContract(least) ==
    ret.op = "ecdf" =>
        LET s == payload.values
            n == Len(s)
            r == ret.res
            m == ret.opt.max_points
        IN  (n > 0 /\ (ret.opt.set => m >= least)) =>
              /\ r.ok
              /\ Len(r.xs) = Len(r.ps.num)
              /\ r.ps.den = n
              /\ Len(r.xs) >= 1
              /\ \A j \in 1..Len(r.xs) :
                    /\ r.ps.num[j] \in 1..n
                    /\ IsOrderStat(s, r.xs[j], r.ps.num[j])
              /\ \A j \in 1..(Len(r.xs) - 1) :
                    /\ r.xs[j] <= r.xs[j + 1]
                    /\ r.ps.num[j] <= r.ps.num[j + 1]
              /\ r.ps.num[Len(r.xs)] = n
              /\ IF ret.opt.set /\ n > m
                 THEN Len(r.xs) <= m /\ r.ps.num[1] = 1
                 ELSE Len(r.xs) = n /\ \A j \in 1..n : r.ps.num[j] = j

(* C12, as stated: ecdf returns xs and ps of equal length with ps[i] =     *)
(* (i+1)/n; with max_points set and n above it, an index-based subsample   *)
(* of at most max_points points holding the first and the last point; xs   *)
(* and ps non-decreasing and the last ps equal to 1.                       *)
C12_EcdfAnyMaxPoints == EcdfContract(1)

(* C12, amended: the same for max_points unset or at least 2.              *)
C12_EcdfMaxPointsAtLeast2 == EcdfContract(2)

C12_Witness ==
    /\ ret.op = "ecdf"
    /\ ret.opt.set
    /\ ret.opt.max_points >= 2
    /\ Len(payload.values) > ret.opt.max_points + 1
    /\ ret.res.ok
    /\ Len(ret.res.xs) = ret.opt.max_points
    /\ ret.res.xs[1] < ret.res.xs[2]

(* ------------------------------- C13 ---------------------------------- *)

RECURSIVE CellsOf(_)
CellsOf(csv) ==
    LET seps == {i \in 1..Len(csv) : csv[i] = "," \/ csv[i] = "\n"}
        first == CHOOSE i \in seps : \A j \in seps : i <= j
    IN  IF seps = {} THEN <<csv>>
        ELSE <<SubSeq(csv, 1, first - 1)>> \o CellsOf(SubSeq(csv, first + 1, Len(csv)))

\* A cell without the white space around it.
Strip(cell) ==
    LET ink == {i \in 1..Len(cell) : cell[i] \notin WhiteSpace}
    IN  IF ink = {} THEN <<>>
        ELSE SubSeq(cell, CHOOSE i \in ink : \A j \in ink : i <= j,
                          CHOOSE i \in ink : \A j \in ink : i >= j)

\* A decimal numeral, with or without a minus sign.
IsNumeral(t) ==
    LET body == IF t # <<>> /\ t[1] = "-" THEN Tail(t) ELSE t
    IN  body # <<>> /\ \A i \in 1..Len(body) : body[i] \in {"0", "7"}

RECURSIVE Horner(_, _)
Horner(acc, body) ==
    IF body = <<>> THEN acc
    ELSE Horner(10 * acc + (IF Head(body) = "7" THEN 7 ELSE 0), Tail(body))

ValueOf(t) == IF t[1] = "-" THEN 0 - Horner(0, Tail(t)) ELSE Horner(0, t)

\* The values of the finite numeric cells, in their order.
FiniteCells(csv) ==
    LET numeric == SelectSeq(CellsOf(csv), LAMBDA c : IsNumeral(Strip(c)))
    IN  [k \in DOMAIN numeric |-> ValueOf(Strip(numeric[k]))]

(* C14: extracting numbers from free-text CSV cells never fails and yields *)
(* exactly the finite numeric cells in their original order, dropping the  *)
(* non-numeric, NaN and infinite ones; a numeric array given explicitly    *)
(* that holds NaN or an infinity is refused with InvalidInput and gives no *)
(* result.                                                                 *)
C14_TolerantAndStrict ==
    /\ ret.op = "csvToNumbers" =>
          /\ ret.res.ok
          /\ ret.res.values = FiniteCells(payload.text)
    /\ (ret.op = "describe" /\ payload.nonfinite # {}) =>
          ret.res = [ok |-> FALSE, error |-> "InvalidInput"]

C14_Witness ==
    /\ ret.op = "csvToNumbers"
    /\ payload.text = <<"Infinity", ",", "0">>
    /\ ret.res.values = <<0>>

(* ------------------------------- C15 ---------------------------------- *)

\* The smallest group of a structured payload.
Smallest(p) == Min([g \in 1..Len(p.groups) |-> Len(p.groups[g])])

\* A typed failure, and nothing of a result.
TypedFailure(r) ==
    /\ DOMAIN r = {"ok", "error"}
    /\ ~r.ok
    /\ r.error \in {"InvalidInput", "InvalidParameters", "InsufficientSample",
                    "DivisionByZero"}

(* C15: every operation enforces its minimum sample size and fails with a  *)
(* typed failure, without a result record, below it: descriptive stats    *)
(* need n >= 1, variance-based stats n >= 2, t-test and ANOVA n >= 2 in    *)
(* every group, OLS n >= 3, chi-square no row or column sum of zero; at    *)
(* the minimum no operation reports an insufficient sample.                *)
C15_MinimumSizes ==
    LET least == CASE ret.op = "describe" -> 1
                   [] ret.op \in {"pairwise", "ttest", "anova1"} -> 2
                   [] ret.op = "ols_simple" -> 3
                   [] OTHER -> 0
    IN  /\ ret.op \in {"describe", "pairwise", "ttest", "anova1", "ols_simple"} =>
              /\ Smallest(payload) < least => TypedFailure(ret.res)
              /\ Smallest(payload) >= least =>
                    (ret.res.ok \/ ret.res.error # "InsufficientSample")
        /\ ret.op = "chisq" =>
              LET t == payload.table
              IN  ((\E i \in 1..Len(t) : \A j \in 1..Len(t[i]) : t[i][j] = 0)
                      \/ (\E j \in 1..Len(t[1]) : \A i \in 1..Len(t) : t[i][j] = 0))
                  => TypedFailure(ret.res)

C15_Witness ==
    /\ ret.op = "ols_simple"
    /\ Len(payload.groups[1]) = 2
    /\ Len(payload.groups[2]) = 2
    /\ payload.groups[1][1] # payload.groups[1][2]
    /\ payload.nonfinite = {}
    /\ ret.res = [ok |-> FALSE, error |-> "InsufficientSample"]

(* ------------------------------- C17 ---------------------------------- *)

C19_ChisqExpected ==
    ret.op = "chisq" =>
        LET t == payload.table
            rows == Len(t)
            cols == Len(t[1])
            R(i) == SumSeq(t[i])
            C(j) == SumSeq([i \in 1..rows |-> t[i][j]])
            total == SumSeq([j \in 1..cols |-> C(j)])
            e == ret.res.expected
        IN  IF (\E i \in 1..rows : R(i) = 0) \/ (\E j \in 1..cols : C(j) = 0)
            THEN ret.res = [ok |-> FALSE, error |-> "InvalidInput"]
            ELSE /\ ret.res.ok
                 /\ ret.res.df = (rows - 1) * (cols - 1)
                 /\ e.den > 0
                 /\ Len(e.num) = rows
                 /\ \A i \in 1..rows :
                       /\ Len(e.num[i]) = cols
                       /\ \A j \in 1..cols : e.num[i][j] * total = R(i) * C(j) * e.den

C19_Witness ==
    /\ ret.op = "chisq"
    /\ ret.res.ok
    /\ ret.res.df = 2
    /\ ret.res.expected.num[1][1] % ret.res.expected.den # 0
    /\ \E i \in 1..2 : \E j \in 1..3 : payload.table[i][j] = 0

(* ------------------------------- C20 ---------------------------------- *)

(* C20: the Calculate button is disabled while a calculation is busy: at   *)
(* any time at most one handleCalculate run is in flight, and no step      *)
(* taken while busy is true, or while no file is selected, starts one.     *)
C20_NoDoubleSubmit ==
    /\ [](Len(runs) <= 1 /\ (busy => disabled))
    /\ [][(busy \/ file = Null) => Len(runs') <= Len(runs)]_vars

C20_Witness ==
    /\ busy
    /\ Len(runs) = 1
    /\ runs[1].pc = "statsDistributionFromCsv"
    /\ file \in Files
    /\ file # runs[1].file
    /\ disabled

(* ------------------------------- C21 ---------------------------------- *)

(* C21: GET /health on the backend app always answers 200 with the JSON    *)
(* body {status: "ok"}, whatever the other requests and the state.         *)
C21_HealthStatusOk ==
    resp.route = "/health" =>
        /\ resp.code = 200
        /\ resp.body = [status |-> "ok"]

(* ------------------------------- C22 ---------------------------------- *)

Terminal == {"succeeded", "failed"}

\* The moves of a job's status.  With FAKE_SERVICES the in-memory build
\* writes running and succeeded in one synchronous run of processJob, so
\* no other handler sees the job running.
StatusMoves ==
    {<<"queued", "running">>, <<"running", "succeeded">>, <<"running", "failed">>}
        \cup (IF build = "part_010" /\ FAKE_SERVICES
              THEN {<<"queued", "succeeded">>} ELSE {})

\* How far processJob has come.
PcRank(pc) ==
    CASE pc = "new" -> 0
      [] pc = "updateOne" -> 1
      [] pc \in {"resume", "readFile"} -> 2
      [] pc = "fetch" -> 3
      [] pc = "writeFile" -> 4
      [] pc \in {"done", "rejected"} -> 5

(* C22: a job's status only moves forward, queued -> running ->            *)
(* (succeeded | failed); a succeeded or failed job keeps its status,       *)
(* result and error for ever; and each job is processed at most once: it   *)
(* has one run of processJob, which never goes back.                       *)
C22_StatusForward ==
    [][/\ Len(Mem') >= Len(Mem)
       /\ Len(worker') = Len(Mem')
       /\ \A i \in 1..Len(Mem) :
             /\ Mem'[i].status # Mem[i].status =>
                   <<Mem[i].status, Mem'[i].status>> \in StatusMoves
             /\ Mem[i].status \in Terminal =>
                   /\ Mem'[i].status = Mem[i].status
                   /\ Mem'[i].result = Mem[i].result
                   /\ Mem'[i].error = Mem[i].error
             /\ PcRank(worker'[i].pc) >= PcRank(worker[i].pc)
             /\ Mem'[i] # Mem[i] => worker'[i] # worker[i]]_vars

\* A finished job of each outcome has been read back by GET /jobs.
C22_Witness ==
    /\ \E i \in 1..Len(Mem) : Mem[i].status \in Terminal /\ worker[i].pc = "done"
    /\ resp.route = "/jobs"

(* ------------------------------- C23 ---------------------------------- *)

(* C23: when every downstream call and file operation returns, every job   *)
(* inserted by POST /upload reaches succeeded or failed, none stays queued *)
(* or running for ever, and no run of processJob rejects.                  *)
C23_EveryJobSettles ==
    /\ \A i \in 1..MaxUploads :
          (i \in Jobs) ~> (i \in Jobs /\ Mem[i].status \in Terminal)
    /\ [](\A i \in Jobs : worker[i].pc # "rejected")

(* ------------------------------- C24 ---------------------------------- *)

(* C24: a job has a result only if it succeeded and an error only if it    *)
(* failed: queued and running jobs have neither, a succeeded job has a     *)
(* result and no error, a failed job has an error and no result.           *)
C24_ResultXorError ==
    \A i \in Jobs :
        /\ Mem[i].status \in {"queued", "running", "succeeded", "failed"}
        /\ Mem[i].result # Undefined <=> Mem[i].status = "succeeded"
        /\ Mem[i].error # Undefined <=> Mem[i].status = "failed"

\* A job failed on the answer of its downstream call.
C24_Witness ==
    \E i \in Jobs :
        /\ Mem[i].status = "failed"
        /\ Mem[i].error # Undefined
        /\ worker[i].pc = "done"
        /\ worker[i].down.net

(* ------------------------------- C25 ---------------------------------- *)

(* C25: the status in the 202 answer of POST /upload, "queued", is the     *)
(* status the store holds for that job at the moment the answer is sent:   *)
(* the worker has not changed the record yet.                              *)
C25_AnswerMatchesStore ==
    (resp.route = "/upload" /\ resp.code = 202) =>
        /\ resp.body.status = "queued"
        /\ getJob(Mem, resp.body.jobId).job.status = resp.body.status

(* ------------------------------- C26 ---------------------------------- *)

\* Ids of jobs that are not in the store.
UnknownIds == {newJobId(n) : n \in 1..(MaxUploads + 2)} \ {Mem[i].jobId : i \in Jobs}

ReferencedBy(f) == {i \in Jobs : Mem[i].filePath = "uploads/" \o f}

(* C27: every file stored under UPLOAD_DIR is the filePath of exactly one  *)
(* job record, and an upload answered 400 or 500 leaves no job record and  *)
(* no stored file behind: after it there are as many files as jobs.        *)
C27_FilesBelongToJobs ==
    /\ \A f \in files : Cardinality(ReferencedBy(f)) = 1
    /\ (resp.route = "/upload" /\ resp.code \in {400, 500}) =>
          Cardinality(files) = Len(Mem)

(* ------------------------------- C28 ---------------------------------- *)

(* C28: every run of handleCalculate ends with busy = false, whether its   *)
(* steps succeed or throw: busy is true exactly while a run is in flight.  *)
(* err is null from the start of a run, and when the run has ended err is  *)
(* non-null if and only if a step failed: a run ends either with its last  *)
(* step done, the distribution set and err null, or with err set and no    *)
(* result written by the step that ended it.                               *)
C28_BusyAndErr ==
    /\ [](/\ busy <=> runs # <<>>
          /\ busy => err = Null)
    /\ [][/\ Len(runs') > Len(runs) => busy' /\ err' = Null
          /\ Len(runs') < Len(runs) =>
                /\ ~busy'
                /\ \/ /\ err' = Null
                      /\ runs[1].pc = "statsDistributionFromCsv"
                      /\ dist' = runs[1].file
                      /\ summary' = runs[1].file
                   \/ /\ err' # Null
                      /\ summary' = summary
                      /\ dist' = dist
         ]_vars

\* A run has ended on a failure of its last step: the summary it wrote is
\* on screen, the error is set and the panel is idle.
C28_Witness ==
    /\ ~busy
    /\ runs = <<>>
    /\ err = Message("statsDistributionFromCsv")
    /\ summary # Null

(* ------------------------------- C29 ---------------------------------- *)

(* C29: whenever busy is false, the summary and the distribution held in   *)
(* App's state were computed from the same CSV file.                       *)
C29_SameFile ==
    (~busy /\ summary # Null /\ dist # Null) => summary = dist

====
